---- MODULE Spec2Model ----
(***************************************************************************)
(* LZ78 encoder / decoder of scl/compressors/lz78.py.                      *)
(*                                                                         *)
(* A Python str is a finite sequence of Unicode code points: "ab" is       *)
(* <<97, 98>>, a one-character symbol "a" is <<97>> and the empty string   *)
(* (the literal of the flushing tuple) is <<>>.  A data_list is a sequence *)
(* of such strings.  A dict is a function on its key set.                  *)
(*                                                                         *)
(* One LZ78Encoder and one LZ78Decoder instance live for the whole run;    *)
(* a caller (the tests, or encode_file / decode_file of the driver) feeds  *)
(* them one block after another.  The loops of the parser and of the       *)
(* reconstructor advance one iteration per step; pc is the caller's        *)
(* position.                                                               *)
(***************************************************************************)
EXTENDS Integers, Sequences, FiniteSets, TLC

\* ------------------------------------------------------------ bounds
\* longest first block drawn from the alphabet
MaxLen == 3
\* number of blocks fed to the one encoder / decoder pair
MaxBlocks == 2
\* largest reference of a hand-made (corrupted) tuple
MaxRef == 2
\* longest hand-made index stream and literal stream
MaxStream == 2
\* most bits that follow a block in the stream handed to decode_block
MaxTrail == 2
\* longest block handed to the parser alone
MaxParse == 6

\* ------------------------------------------------------------ inputs
Alphabet == {97, 98}

RECURSIVE StringsUpTo(_)
StringsUpTo(n) ==
    IF n = 0 THEN {<<>>}
    ELSE LET shorter == StringsUpTo(n - 1)
         IN shorter \cup {Append(s, c) : s \in {t \in shorter : Len(t) = n - 1}, c \in Alphabet}

\* "EE274 cool cool" and "EE274 cool co" of the tests and of the scenarios
Scenario1 == <<69, 69, 50, 55, 52, 32, 99, 111, 111, 108, 32, 99, 111, 111, 108>>
Scenario2 == <<69, 69, 50, 55, 52, 32, 99, 111, 111, 108, 32, 99, 111>>

\* [*input_string]: the list of the one-character strings of a string
Explode(s) == [i \in 1..Len(s) |-> <<s[i]>>]

\* ''.join(list)
RECURSIVE Join(_)
Join(list) == IF list = <<>> THEN <<>> ELSE Head(list) \o Join(Tail(list))

FirstBlocks == {Explode(s) : s \in StringsUpTo(MaxLen) \cup {Scenario1, Scenario2}}
NextBlocks == {Explode(s) : s \in StringsUpTo(MaxLen - 1)}
\* blocks long enough for phrases of two and three symbols
LongBlocks == {Explode(s) : s \in StringsUpTo(MaxParse)}

\* hand-made tuple lists, as a corrupted stream would decode to: one or two
\* tuples, any reference up to MaxRef, a symbol or the empty string
HandMadeTuples ==
    LET tuple == (0..MaxRef) \X {<<97>>, <<>>}
    IN {<<t>> : t \in tuple} \cup {<<t, u>> : t \in tuple, u \in tuple}

\* the sequences over S of length at most n
RECURSIVE SeqsUpTo(_, _)
SeqsUpTo(S, n) ==
    IF n = 0 THEN {<<>>}
    ELSE LET shorter == SeqsUpTo(S, n - 1)
         IN shorter \cup {Append(s, x) : s \in {t \in shorter : Len(t) = n - 1}, x \in S}

\* hand-made streams, as a corrupted block would decode to: the two lengths
\* are independent of each other
HandMadeIndexes == SeqsUpTo(0..MaxRef, MaxStream)
HandMadeLiterals == SeqsUpTo(Alphabet, MaxStream)

\* what may follow a block in a stream: the bits of whatever comes next
TrailingBits == SeqsUpTo({0, 1}, MaxTrail) \ {<<>>}

\* ------------------------------------------------------------ dict
EmptyDict == <<>>
Put(d, k, v) == [x \in DOMAIN d \cup {k} |-> IF x = k THEN v ELSE d[x]]
Get(d, k, default) == IF k \in DOMAIN d THEN d[k] ELSE default

\* initial_dict arguments: phrase -> index, distinct indexes 1..n
Seeds ==
    { (<<97>> :> 1),
      (<<97>> :> 1) @@ (<<97, 98>> :> 2),
      (<<98>> :> 1) @@ (<<97>> :> 2) }

\* the (phrase, index) associations of a dict, as the decoder's loop reads them
InverseOf(d) ==
    LET idx == {d[k] : k \in DOMAIN d}
    IN [i \in idx |-> CHOOSE k \in DOMAIN d : d[k] = i]

\* ------------------------------------------------------------ entropy coder
\* LogScaleBinnedIntegerEncoder / Decoder (lz77 module): a lossless,
\* self-delimiting code of a list of non-negative integers.  A value below
\* the offset is its own bin; a larger one is binned by the logarithm of its
\* distance to the offset and followed by the residual in plain bits.  The
\* list's length and each bin take BinWidth bits.
BinWidth == 6
\* offset of LogScaleBinnedIntegerEncoder() built without an argument
DefaultOffset == 16
\* log_scale_binned_coder_offset of LZ78Encoder() / LZ78Decoder()
log_scale_binned_coder_offset == 16

RECURSIVE Pow2(_)
Pow2(k) == IF k = 0 THEN 1 ELSE 2 * Pow2(k - 1)

\* floor(log2(n)), n >= 1
RECURSIVE Log2(_)
Log2(n) == IF n < 2 THEN 0 ELSE 1 + Log2(n \div 2)

\* n in w bits, most significant first
RECURSIVE ToBits(_, _)
ToBits(n, w) == IF w = 0 THEN <<>> ELSE Append(ToBits(n \div 2, w - 1), n % 2)

RECURSIVE FromBits(_)
FromBits(bits) ==
    IF bits = <<>> THEN 0
    ELSE 2 * FromBits(SubSeq(bits, 1, Len(bits) - 1)) + bits[Len(bits)]

EncodeInt(v, offset) ==
    IF v < offset THEN ToBits(v, BinWidth)
    ELSE LET w == v - (offset - 1)
             lg == Log2(w)
         IN ToBits(offset - 1 + lg, BinWidth) \o ToBits(w - Pow2(lg), lg)

RECURSIVE EncodeInts(_, _)
EncodeInts(vals, offset) ==
    IF vals = <<>> THEN <<>>
    ELSE EncodeInt(Head(vals), offset) \o EncodeInts(Tail(vals), offset)

\* encode_block of the coder
LogScaleEncode(vals, offset) == ToBits(Len(vals), BinWidth) \o EncodeInts(vals, offset)

\* reads `left` values from bit `at` + 1 on; at = -1: the bits ran out
RECURSIVE DecodeInts(_, _, _, _, _)
DecodeInts(bits, at, left, offset, acc) ==
    IF left = 0 THEN [data_list |-> acc, at |-> at]
    ELSE IF at + BinWidth > Len(bits) THEN [data_list |-> acc, at |-> -1]
    ELSE LET bin == FromBits(SubSeq(bits, at + 1, at + BinWidth))
             lg == bin - (offset - 1)
         IN IF bin < offset
            THEN DecodeInts(bits, at + BinWidth, left - 1, offset, Append(acc, bin))
            ELSE IF at + BinWidth + lg > Len(bits) THEN [data_list |-> acc, at |-> -1]
            ELSE DecodeInts(bits, at + BinWidth + lg, left - 1, offset,
                            Append(acc, Pow2(lg) + offset - 1
                                        + FromBits(SubSeq(bits, at + BinWidth + 1,
                                                          at + BinWidth + lg))))

\* decode_block of the coder: the values and the number of bits consumed
LogScaleDecode(bits, offset) ==
    IF Len(bits) < BinWidth THEN [data_list |-> <<>>, num_bits_consumed |-> -1]
    ELSE LET r == DecodeInts(bits, BinWidth, FromBits(SubSeq(bits, 1, BinWidth)), offset, <<>>)
         IN [data_list |-> r.data_list, num_bits_consumed |-> r.at]

\* ------------------------------------------------------------ tuple codec
\* ord() of a one-character string, chr() of a code point
Ord(l) == l[1]
Chr(n) == <<n>>

Indexes(tuples) == [i \in 1..Len(tuples) |-> tuples[i][1]]
Literals(tuples) == [i \in 1..Len(tuples) |-> tuples[i][2]]

\* encode_indexes
encode_indexes(indexes) == LogScaleEncode(indexes, DefaultOffset)

\* a bug to tell the properties from: the last literal is dropped whatever it is
SkippedAlways(literals) == SubSeq(literals, 1, Len(literals) - 1)

\* the literals encode_literals codes: a trailing empty string is skipped
Skipped(literals) ==
    IF literals[Len(literals)] = <<>> THEN SubSeq(literals, 1, Len(literals) - 1)
    ELSE literals

\* encode_literals, on a non-empty list of strings
encode_literals(literals) ==
    LET kept == Skipped(literals)
    IN LogScaleEncode([i \in 1..Len(kept) |-> Ord(kept[i])], log_scale_binned_coder_offset)

\* encode_tuples
encode_tuples(tuples) == encode_indexes(Indexes(tuples)) \o encode_literals(Literals(tuples))

VARIABLES
    seeded,              \* initial_dict is not None
    seed,                \* the contents of initial_dict when the caller built it
    initial_dict,        \* the caller's dict object, as it is now
    encoder_dictionary,  \* LZ78Encoder.dictionary
    decoder_dictionary,  \* LZ78Decoder.dictionary
    mode,                \* "tuples": parse / decode_from_tuples; "block": encode_block / decode_block
    pc,                  \* the caller's position
    block_no,            \* calls completed on the pair of instances
    fed,                 \* the blocks fed to the encoder so far, in order
    data_list,           \* data_block.data_list of the current call
    pos,                 \* symbols of input_data the parser loop has consumed
    prefix,
    dict_index,
    output,
    encoded_bitarray,    \* what encode_block returned, the argument of decode_block
    num_bits_consumed,   \* second value decode_block returns
    encoded_tuples,      \* argument of lz78_decode_from_tuples
    dec_pos,             \* tuples the decoder loop has consumed
    dec_dict_index,
    dec_output,
    status,              \* outcome of the last call: "none", "ok", or the exception raised
    decoded_input,
    decoded_list

vars == <<seeded, seed, initial_dict, encoder_dictionary, decoder_dictionary, mode, pc,
          block_no, fed, data_list, pos, prefix, dict_index, output, encoded_bitarray,
          num_bits_consumed, encoded_tuples, dec_pos, dec_dict_index, dec_output, status, decoded_input, decoded_list>>

encoderLocals == <<pos, prefix, dict_index, output>>
decoderLocals == <<encoded_tuples, dec_pos, dec_dict_index, dec_output>>
bits == <<encoded_bitarray, num_bits_consumed>>
results == <<status, decoded_input, decoded_list>>
config == <<seeded, seed, mode>>

\* LZ78Encoder.__init__: the dictionary is the caller's initial_dict itself
EncoderInit ==
    /\ encoder_dictionary = IF seeded THEN initial_dict ELSE EmptyDict

\* LZ78Decoder.__init__, given the (phrase, index) associations of the same
\* initial dictionary: the dictionary maps each index to its phrase
DecoderInit ==
    /\ decoder_dictionary = IF seeded THEN InverseOf(seed) ELSE EmptyDict

\* the caller has built one encoder and one decoder and called nothing yet
Init ==
    /\ seeded \in BOOLEAN
    /\ seed \in IF seeded THEN Seeds ELSE {EmptyDict}
    /\ initial_dict = seed
    /\ EncoderInit
    /\ DecoderInit
    /\ mode \in {"tuples", "block"}
    /\ pc = "idle"
    /\ block_no = 0
    /\ fed = <<>>
    /\ data_list = <<>>
    /\ pos = 0
    /\ prefix = <<>>
    /\ dict_index = 1
    /\ output = <<>>
    /\ encoded_bitarray = <<>>
    /\ num_bits_consumed = 0
    /\ encoded_tuples = <<>>
    /\ dec_pos = 0
    /\ dec_dict_index = 1
    /\ dec_output = <<>>
    /\ status = "none"
    /\ decoded_input = <<>>
    /\ decoded_list = <<>>

\* self.dictionary = initial_dict binds the caller's object: a write through
\* the encoder's dictionary is a write to initial_dict
Aliased(d) == IF seeded THEN d ELSE initial_dict

\* ------------------------------------------------------------ parser
\* bugs to tell the properties from: an index one too high, one too low
NewIndexOffByOne(i) == i + 1
NewIndexZeroBased(i) == i - 1

\* the index a new phrase is registered at
NewIndex(i) == i

\* bugs to tell the properties from: the prefix is never looked up; the
\* reference is one past the prefix's index
ReferenceNoLookup(dictionary, p) == 0
ReferencePastPrefix(dictionary, p) == Get(dictionary, p, 0) + 1

\* the reference of an emitted tuple
Reference(dictionary, p) == Get(dictionary, p, 0)

\* a bug to tell the properties from: a phrase is never extended past one
\* symbol
KnownIfShort(dictionary, s) == s \in DOMAIN dictionary /\ Len(s) < 2

\* `new_string in dictionary`
Known(dictionary, s) == s \in DOMAIN dictionary

\* entry of lz78_parse_and_generate_dict
ParseCall ==
    /\ pc = "idle"
    /\ block_no < MaxBlocks
    /\ \E b \in (IF block_no = 0 THEN FirstBlocks ELSE NextBlocks) :
          /\ data_list' = b
          /\ fed' = Append(fed, b)
    /\ pos' = 0
    /\ prefix' = <<>>
    /\ dict_index' = 1
    /\ output' = <<>>
    /\ status' = "none"
    /\ pc' = "parse"
    /\ UNCHANGED <<config, initial_dict, encoder_dictionary, decoder_dictionary, block_no,
                   decoderLocals, bits, decoded_input, decoded_list>>

\* entry of lz78_parse_and_generate_dict, first call, on a longer block
LongParseCall ==
    /\ pc = "idle"
    /\ block_no = 0
    /\ \E b \in LongBlocks :
          /\ data_list' = b
          /\ fed' = Append(fed, b)
    /\ pos' = 0
    /\ prefix' = <<>>
    /\ dict_index' = 1
    /\ output' = <<>>
    /\ status' = "none"
    /\ pc' = "parse"
    /\ UNCHANGED <<config, initial_dict, encoder_dictionary, decoder_dictionary, block_no,
                   decoderLocals, bits, decoded_input, decoded_list>>

\* one iteration of `for symbol in input_data`
ParseStep ==
    /\ pc = "parse"
    /\ pos < Len(data_list)
    /\ LET symbol == data_list[pos + 1]
           new_string == prefix \o symbol
       IN IF Known(encoder_dictionary, new_string)
          THEN /\ prefix' = new_string
               /\ UNCHANGED <<output, encoder_dictionary, initial_dict, dict_index>>
          ELSE /\ output' = Append(output, <<Reference(encoder_dictionary, prefix), symbol>>)
               /\ encoder_dictionary' = Put(encoder_dictionary, new_string, NewIndex(dict_index))
               /\ initial_dict' = Aliased(encoder_dictionary')
               /\ dict_index' = dict_index + 1
               /\ prefix' = <<>>
    /\ pos' = pos + 1
    /\ UNCHANGED <<config, fed, decoder_dictionary, pc, block_no, data_list, decoderLocals, bits, results>>

\* a bug to tell the properties from: the flush is not guarded by `if prefix`
FlushedAlways(out, dictionary, p) == Append(out, <<Get(dictionary, p, 0), <<>>>>)

\* the tuples the parser returns once the loop is over
Flushed(out, dictionary, p) == IF p # <<>> THEN Append(out, <<dictionary[p], <<>>>>) ELSE out

\* after the loop: flush a pending prefix, return
ParseEnd ==
    /\ pc = "parse"
    /\ pos = Len(data_list)
    /\ output' = Flushed(output, encoder_dictionary, prefix)
    /\ pc' = "parsed"
    /\ UNCHANGED <<config, fed, initial_dict, encoder_dictionary, decoder_dictionary, block_no,
                   data_list, pos, prefix, dict_index, decoderLocals, bits, results>>

\* ------------------------------------------------------------ encode_block
\* encode_block after the parse: encode_tuples.  literals[-1] of an empty
\* list raises IndexError.
EncodeTuples ==
    /\ pc = "parsed"
    /\ mode = "block"
    /\ IF output = <<>>
       THEN /\ status' = "IndexError"
            /\ pc' = "idle"
            /\ block_no' = block_no + 1
            /\ UNCHANGED encoded_bitarray
       ELSE /\ encoded_bitarray' = encode_tuples(output)
            /\ pc' = "encoded"
            /\ UNCHANGED <<status, block_no>>
    /\ UNCHANGED <<config, fed, initial_dict, encoder_dictionary, decoder_dictionary, data_list,
                   encoderLocals, decoderLocals, num_bits_consumed, decoded_input,
                   decoded_list>>

\* ------------------------------------------------------------ decode_block
\* a bug to tell the properties from: no assert, and zip drops the surplus
\* literals
LengthsAcceptedLonger(indexes, literals) == Len(literals) + 1 >= Len(indexes)

\* the stream lengths decode_block accepts: its `if`, and the assert of its `else`
LengthsAccepted(indexes, literals) ==
    Len(literals) + 1 = Len(indexes) \/ Len(literals) = Len(indexes)

\* the literals decode_block zips with the indexes
Realigned(indexes, literals) ==
    IF Len(literals) + 1 = Len(indexes) THEN Append(literals, <<>>) ELSE literals

\* decode_block up to the call of lz78_decode_from_tuples
DecodeBlock ==
    /\ pc = "encoded"
    /\ LET seqs == LogScaleDecode(encoded_bitarray, DefaultOffset)
           rest == SubSeq(encoded_bitarray, seqs.num_bits_consumed + 1, Len(encoded_bitarray))
           lits == LogScaleDecode(rest, log_scale_binned_coder_offset)
           indexes == seqs.data_list
           literals == [i \in 1..Len(lits.data_list) |-> Chr(lits.data_list[i])]
       IN IF seqs.num_bits_consumed < 0 \/ lits.num_bits_consumed < 0
          THEN /\ status' = "DecodeError"
               /\ pc' = "idle"
               /\ block_no' = block_no + 1
               /\ UNCHANGED <<num_bits_consumed, decoderLocals>>
          ELSE IF ~LengthsAccepted(indexes, literals)
          THEN /\ status' = "AssertionError"
               /\ pc' = "idle"
               /\ block_no' = block_no + 1
               /\ UNCHANGED <<num_bits_consumed, decoderLocals>>
          ELSE /\ num_bits_consumed' = seqs.num_bits_consumed + lits.num_bits_consumed
               /\ encoded_tuples' = [i \in 1..Len(indexes) |->
                                        <<indexes[i], Realigned(indexes, literals)[i]>>]
               /\ dec_pos' = 0
               /\ dec_dict_index' = 1
               /\ dec_output' = <<>>
               /\ pc' = "decode"
               /\ UNCHANGED <<status, block_no>>
    /\ UNCHANGED <<config, fed, initial_dict, encoder_dictionary, decoder_dictionary, data_list,
                   encoderLocals, encoded_bitarray, decoded_input, decoded_list>>

\* entry of decode_block, on the first block of a stream that no encode_block
\* produced: an index stream and a literal stream, each well coded
CorruptBlockCall ==
    /\ pc = "idle"
    /\ mode = "block"
    /\ block_no = 0
    /\ \E indexes \in HandMadeIndexes, ords \in HandMadeLiterals :
          encoded_bitarray' = LogScaleEncode(indexes, DefaultOffset)
                              \o LogScaleEncode(ords, log_scale_binned_coder_offset)
    /\ status' = "none"
    /\ pc' = "encoded"
    /\ UNCHANGED <<config, fed, initial_dict, encoder_dictionary, decoder_dictionary, block_no,
                   data_list, encoderLocals, decoderLocals, num_bits_consumed, decoded_input,
                   decoded_list>>

\* ------------------------------------------------------------ reconstructor
\* entry of lz78_decode_from_tuples, on the tuples the parser returned
DecodeCall ==
    /\ pc = "parsed"
    /\ mode = "tuples"
    /\ encoded_tuples' = output
    /\ dec_pos' = 0
    /\ dec_dict_index' = 1
    /\ dec_output' = <<>>
    /\ pc' = "decode"
    /\ UNCHANGED <<config, fed, initial_dict, encoder_dictionary, decoder_dictionary, block_no,
                   data_list, encoderLocals, bits, results>>

\* entry of lz78_decode_from_tuples, on tuples that no parse produced
CorruptCall ==
    /\ pc = "idle"
    /\ mode = "tuples"
    /\ block_no < MaxBlocks
    /\ \E t \in HandMadeTuples : encoded_tuples' = t
    /\ dec_pos' = 0
    /\ dec_dict_index' = 1
    /\ dec_output' = <<>>
    /\ status' = "none"
    /\ pc' = "decode"
    /\ UNCHANGED <<config, fed, initial_dict, encoder_dictionary, decoder_dictionary, block_no,
                   data_list, encoderLocals, bits, decoded_input, decoded_list>>

\* between encode_block and decode_block: the block is followed by other
\* bits in the stream the decoder is handed
AppendTrailing ==
    /\ pc = "encoded"
    /\ encoded_bitarray = encode_tuples(output)
    /\ \E T \in TrailingBits : encoded_bitarray' = encoded_bitarray \o T
    /\ UNCHANGED <<config, fed, initial_dict, encoder_dictionary, decoder_dictionary, block_no,
                   data_list, encoderLocals, decoderLocals, num_bits_consumed, status, pc,
                   decoded_input, decoded_list>>

\* one iteration of `for index, symbol in encoded_tuples`
DecodeStep ==
    /\ pc = "decode"
    /\ dec_pos < Len(encoded_tuples)
    /\ LET index == encoded_tuples[dec_pos + 1][1]
           symbol == encoded_tuples[dec_pos + 1][2]
       IN IF index # 0 /\ index \notin DOMAIN decoder_dictionary
          THEN \* dictionary[index] raises KeyError
               /\ status' = "KeyError"
               /\ pc' = "idle"
               /\ block_no' = block_no + 1
               /\ UNCHANGED <<decoder_dictionary, dec_dict_index, dec_output, dec_pos>>
          ELSE LET new_string == IF index # 0 THEN decoder_dictionary[index] \o symbol
                                 ELSE symbol
               IN /\ decoder_dictionary' = Put(decoder_dictionary, dec_dict_index, new_string)
                  /\ dec_dict_index' = dec_dict_index + 1
                  /\ dec_output' = Append(dec_output, new_string)
                  /\ dec_pos' = dec_pos + 1
                  /\ UNCHANGED <<status, pc, block_no>>
    /\ UNCHANGED <<config, fed, initial_dict, encoder_dictionary, data_list, encoderLocals,
                   bits, encoded_tuples, decoded_input, decoded_list>>

\* after the loop: join the phrases, split into symbols, return
DecodeEnd ==
    /\ pc = "decode"
    /\ dec_pos = Len(encoded_tuples)
    /\ decoded_input' = Join(dec_output)
    /\ decoded_list' = Explode(decoded_input')
    /\ status' = "ok"
    /\ pc' = "idle"
    /\ block_no' = block_no + 1
    /\ UNCHANGED <<config, fed, initial_dict, encoder_dictionary, decoder_dictionary, data_list,
                   encoderLocals, decoderLocals, bits>>

Next ==
    \/ ParseCall
    \/ ParseStep
    \/ ParseEnd
    \/ EncodeTuples
    \/ DecodeBlock
    \/ DecodeCall
    \/ DecodeStep
    \/ DecodeEnd

Spec == Init /\ [][Next]_vars

\* the decoder alone, fed hand-made tuples
NextCorrupt ==
    \/ CorruptCall
    \/ DecodeStep
    \/ DecodeEnd

SpecCorrupt == Init /\ [][NextCorrupt]_vars

\* decode_block alone, handed hand-made streams
NextStreams ==
    \/ CorruptBlockCall
    \/ DecodeBlock
    \/ DecodeStep
    \/ DecodeEnd

SpecStreams == Init /\ [][NextStreams]_vars

\* blocks through encode_block and decode_block, each followed by other bits
NextTrailing ==
    \/ ParseCall
    \/ ParseStep
    \/ ParseEnd
    \/ EncodeTuples
    \/ AppendTrailing
    \/ DecodeBlock
    \/ DecodeStep
    \/ DecodeEnd

SpecTrailing == Init /\ [][NextTrailing]_vars

\* lz78_parse_and_generate_dict alone, once, on longer blocks
NextParse ==
    \/ LongParseCall
    \/ ParseStep
    \/ ParseEnd

SpecParse == Init /\ [][NextParse]_vars

\* ------------------------------------------------------------ properties
\* the first call on the two instances has returned
FirstCallDone == block_no = 1 /\ pc = "idle"

\* the call returned the block it was given
RoundTrips ==
    /\ status = "ok"
    /\ decoded_input = Join(data_list)
    /\ decoded_list = data_list

\* C1: a fresh encoder and a fresh decoder built without initial dictionary:
\* lz78_decode_from_tuples of the tuples lz78_parse_and_generate_dict returns
\* for S gives S back, as the joined string and as the list of symbols.
C1_RoundTripUnseeded ==
    (~seeded /\ mode = "tuples" /\ FirstCallDone) => RoundTrips

\* a run of one repeated symbol went through parse and reconstruction
C1_Witness ==
    /\ ~seeded /\ mode = "tuples" /\ FirstCallDone
    /\ Len(data_list) >= 2
    /\ \A i \in 1..Len(data_list) : data_list[i] = data_list[1]
    /\ RoundTrips

\* C2: a fresh unseeded encoder and decoder: decode_block of
\* encode_block(S) returns S for every non-empty S, whether the parse ends on
\* an unmatched symbol or on a known phrase.
C2_RoundTripEndToEnd ==
    (~seeded /\ mode = "block" /\ FirstCallDone /\ data_list # <<>>)
        => (status = "ok" /\ decoded_list = data_list)

\* a block whose parse ended on a known phrase came back from decode_block:
\* the index stream was one longer and the empty literal was appended again
C2_Witness ==
    /\ ~seeded /\ mode = "block" /\ FirstCallDone
    /\ status = "ok" /\ decoded_list = data_list
    /\ encoded_tuples # <<>>
    /\ encoded_tuples[Len(encoded_tuples)][2] = <<>>
    /\ encoded_tuples = output

\* C3: non-empty blocks fed one after another to encode_block of one encoder
\* and decoded in order by decode_block of one decoder come back block for
\* block.
C3_MultiBlockRoundTrip ==
    (/\ ~seeded /\ mode = "block" /\ pc = "idle" /\ block_no >= 1
     /\ \A i \in 1..Len(fed) : fed[i] # <<>>)
        => (status = "ok" /\ decoded_list = data_list)

\* C4: encoder and decoder built with the same valid seed: the tuples of the
\* parse of S decode to S.
C4_RoundTripSeeded ==
    (seeded /\ mode = "tuples" /\ FirstCallDone) => RoundTrips

\* C6: encode_block of an empty block completes and decode_block of its
\* result returns the empty sequence.
C6_EmptyBlockEncodes ==
    (mode = "block" /\ FirstCallDone /\ data_list = <<>>)
        => (status = "ok" /\ decoded_list = <<>>)

\* the encoder built without initial dictionary, in or after its first parse
FreshParse == ~seeded /\ block_no = 0

Last(seq) == seq[Len(seq)]
Range(d) == {d[k] : k \in DOMAIN d}

\* the LZ78 parse as the specification words it: extend the buffer while
\* buffer + symbol is a key; otherwise emit (index of the buffer or 0, symbol),
\* register buffer + symbol at next_index and clear the buffer; flush a
\* pending buffer at the end
RECURSIVE ReferenceParse(_, _, _, _, _)
ReferenceParse(symbols, buffer, dictionary, next_index, pairs) ==
    IF symbols = <<>>
    THEN [pairs |-> IF buffer # <<>> THEN Append(pairs, <<dictionary[buffer], <<>>>>)
                    ELSE pairs,
          dictionary |-> dictionary]
    ELSE LET candidate == buffer \o Head(symbols)
         IN IF candidate \in DOMAIN dictionary
            THEN ReferenceParse(Tail(symbols), candidate, dictionary, next_index, pairs)
            ELSE ReferenceParse(Tail(symbols), <<>>, Put(dictionary, candidate, next_index),
                                next_index + 1,
                                Append(pairs, <<IF buffer # <<>> THEN dictionary[buffer] ELSE 0,
                                                Head(symbols)>>))

\* expected_output and expected_dict of test_lz78_encode_to_dict
expected_output ==
    << <<0, <<69>>>>, <<1, <<50>>>>, <<0, <<55>>>>, <<0, <<52>>>>, <<0, <<32>>>>,
       <<0, <<99>>>>, <<0, <<111>>>>, <<7, <<108>>>>, <<5, <<99>>>>, <<7, <<111>>>>,
       <<0, <<108>>>> >>
expected_dict ==
    (<<69>> :> 1) @@ (<<69, 50>> :> 2) @@ (<<55>> :> 3) @@ (<<52>> :> 4) @@ (<<32>> :> 5)
    @@ (<<99>> :> 6) @@ (<<111>> :> 7) @@ (<<111, 108>> :> 8) @@ (<<32, 99>> :> 9)
    @@ (<<111, 111>> :> 10) @@ (<<108>> :> 11)

\* C5: with no seed, lz78_parse_and_generate_dict returns the tuples and the
\* dictionary of the reference LZ78 parse; "EE274 cool cool" gives the eleven
\* tuples and the eleven phrases at 1..11 of the test.
C5_ParserIsReferenceParse ==
    (FreshParse /\ pc = "parsed") =>
        /\ output = ReferenceParse(data_list, <<>>, EmptyDict, 1, <<>>).pairs
        /\ encoder_dictionary = ReferenceParse(data_list, <<>>, EmptyDict, 1, <<>>).dictionary
        /\ data_list = Explode(Scenario1) =>
               (output = expected_output /\ encoder_dictionary = expected_dict)

\* the parse of "EE274 cool cool" has returned
C5_Witness ==
    /\ FreshParse /\ pc = "parsed"
    /\ data_list = Explode(Scenario1)
    /\ Len(output) = 11

\* C7: the empty literal appears in the parser's tuples only as the literal
\* of the last one; it is there exactly when the input ended with a non-empty
\* prefix, and then the last tuple is (index of that prefix, empty literal);
\* "EE274 cool co" ends with (7, empty literal).
C7_SentinelOnlyLast ==
    /\ \A i \in 1..Len(output) : output[i][2] = <<>> => (i = Len(output) /\ pc # "parse")
    /\ pc # "parse" =>
           /\ prefix # <<>> <=> (output # <<>> /\ Last(output)[2] = <<>>)
           /\ prefix # <<>> => Last(output) = <<encoder_dictionary[prefix], <<>>>>
    /\ (FreshParse /\ pc = "parsed" /\ data_list = Explode(Scenario2))
           => Last(output) = <<7, <<>>>>

\* the parse of "EE274 cool co" has returned with its prefix "o" flushed
C7_Witness ==
    /\ FreshParse /\ pc = "parsed"
    /\ data_list = Explode(Scenario2)
    /\ prefix = <<111>>
    /\ Last(output)[2] = <<>>

\* the tuples that carry a symbol
NonSentinel(out) == {i \in 1..Len(out) : out[i][2] # <<>>}

\* the phrase the j-th tuple of an unseeded parse stands for
RECURSIVE Phrase(_, _)
Phrase(out, j) ==
    IF out[j][1] = 0 THEN out[j][2] ELSE Phrase(out, out[j][1]) \o out[j][2]

\* C8: in the first parse of an unseeded encoder the j-th tuple that carries
\* a symbol registers its phrase at index j: the indexes are 1, 2, 3, ... in
\* the order of discovery, 0 is never assigned, and no key is removed or
\* given another index during the parse.
C8_IndexMonotonicity ==
    /\ [](FreshParse =>
            /\ dict_index = Cardinality(NonSentinel(output)) + 1
            /\ \A j \in NonSentinel(output) :
                   /\ Phrase(output, j) \in DOMAIN encoder_dictionary
                   /\ encoder_dictionary[Phrase(output, j)] = j
            /\ Cardinality(DOMAIN encoder_dictionary) = Cardinality(NonSentinel(output))
            /\ Range(encoder_dictionary) = 1..Cardinality(NonSentinel(output)))
    /\ [][FreshParse =>
            \A k \in DOMAIN encoder_dictionary :
                /\ k \in DOMAIN encoder_dictionary'
                /\ encoder_dictionary'[k] = encoder_dictionary[k]]_vars

\* a first parse registered at least three phrases, one of them extending another
C8_Witness ==
    /\ FreshParse /\ pc = "parse"
    /\ dict_index >= 4
    /\ \E k \in 1..Len(output) : output[k][1] # 0

\* C9 as claimed: in every tuple list the parser produces, the reference of
\* the k-th tuple is 0 or an index assigned by an earlier tuple of the list,
\* a value in 0..k-1.
C9_ReferenceInEarlierTuples ==
    \A k \in 1..Len(output) : output[k][1] \in 0..(k - 1)

\* C9 amended: the reference of an emitted tuple is 0 or an index the
\* encoder's dictionary held when the tuple was emitted (assigned by an earlier
\* tuple of the list, or in the dictionary when the parse began); in the first
\* parse of an unseeded encoder it is a value in 0..k-1 for the k-th tuple.
C9_ReferenceValidity ==
    /\ [][(pc = "parse" /\ Len(output') = Len(output) + 1)
            => Last(output')[1] \in {0} \cup Range(encoder_dictionary)]_vars
    /\ [](FreshParse => \A k \in 1..Len(output) : output[k][1] \in 0..(k - 1))

\* a seeded parse emitted a tuple that refers to a phrase of the seed
C9_Witness ==
    /\ seeded /\ block_no = 0 /\ pc = "parsed"
    /\ Len(output) >= 2
    /\ \E k \in 1..Len(output) : output[k][1] >= k

\* C10, for a decoder built without initial dictionary: a step of
\* lz78_decode_from_tuples on a tuple whose reference is not 0 and is at least
\* the pass's dict_index aborts the call with an error and returns nothing.
C10_DanglingReferenceFatal ==
    [][(/\ ~seeded
        /\ pc = "decode"
        /\ dec_pos < Len(encoded_tuples)
        /\ encoded_tuples[dec_pos + 1][1] # 0
        /\ encoded_tuples[dec_pos + 1][1] >= dec_dict_index)
       => (/\ status' = "KeyError"
           /\ pc' = "idle"
           /\ decoded_input' = decoded_input
           /\ decoded_list' = decoded_list)]_vars

\* the two streams of the block decode_block is about to read
HandedIndexes == LogScaleDecode(encoded_bitarray, DefaultOffset).data_list
HandedLiterals ==
    LogScaleDecode(SubSeq(encoded_bitarray,
                          LogScaleDecode(encoded_bitarray, DefaultOffset).num_bits_consumed + 1,
                          Len(encoded_bitarray)),
                   log_scale_binned_coder_offset).data_list

\* C11: decode_block goes on to the reconstruction only when the index stream
\* is as long as the literal stream or one longer, and in the latter case it
\* zips one empty literal after the decoded ones; with any other two lengths
\* it fails, touches neither the dictionary nor an earlier result, and
\* returns nothing.
C11_StreamLengthCheck ==
    [][pc = "encoded" =>
         IF Len(HandedIndexes) - Len(HandedLiterals) \in {0, 1}
         THEN /\ pc' = "decode"
              /\ Len(encoded_tuples') = Len(HandedIndexes)
              /\ \A i \in 1..Len(HandedIndexes) :
                     /\ encoded_tuples'[i][1] = HandedIndexes[i]
                     /\ encoded_tuples'[i][2] = IF i <= Len(HandedLiterals)
                                                THEN <<HandedLiterals[i]>> ELSE <<>>
         ELSE /\ pc' = "idle"
              /\ status' = "AssertionError"
              /\ decoder_dictionary' = decoder_dictionary
              /\ dec_output' = dec_output
              /\ decoded_list' = decoded_list]_vars

\* decode_block refused a block whose literal stream was the longer one
C11_Witness ==
    /\ pc = "idle"
    /\ status = "AssertionError"
    /\ Len(HandedLiterals) > Len(HandedIndexes)

\* the keys the first parse of an unseeded encoder had registered once it
\* had emitted the first k tuples of its output
AssignedAfter(k) ==
    {key \in DOMAIN encoder_dictionary :
        encoder_dictionary[key] <= Cardinality(NonSentinel(SubSeq(output, 1, k)))}

\* C12: a fresh unseeded parser and reconstructor side by side on the same
\* tuples: once both have processed the k-th tuple, the decoder's
\* dictionary[i] is the phrase the encoder registered at i, for every index
\* the encoder has assigned so far, and the decoder holds no other index.
C12_DictionaryLockstep ==
    (/\ ~seeded
     /\ encoded_tuples = output
     /\ (block_no = 0 /\ pc = "decode") \/ (FirstCallDone /\ status = "ok"))
        => /\ \A key \in AssignedAfter(dec_pos) :
                  /\ encoder_dictionary[key] \in DOMAIN decoder_dictionary
                  /\ decoder_dictionary[encoder_dictionary[key]] = key
           /\ DOMAIN decoder_dictionary
                  = {encoder_dictionary[key] : key \in AssignedAfter(dec_pos)}

\* C13: when the reconstructor meets a tuple with the empty literal it
\* appends the referenced phrase to the output, registers no dictionary
\* entry, leaves its next index where it was, and processes no tuple after
\* that one.
C13_SentinelHandling ==
    [][/\ (pc = "decode" /\ dec_pos' = dec_pos + 1 /\ encoded_tuples[dec_pos'][2] = <<>>)
          => /\ dec_output' = Append(dec_output,
                                     IF encoded_tuples[dec_pos'][1] = 0 THEN <<>>
                                     ELSE decoder_dictionary[encoded_tuples[dec_pos'][1]])
             /\ decoder_dictionary' = decoder_dictionary
             /\ dec_dict_index' = dec_dict_index
       /\ (pc = "decode" /\ dec_pos > 0 /\ encoded_tuples[dec_pos][2] = <<>>)
          => dec_pos' = dec_pos]_vars

\* C14: every call of lz78_parse_and_generate_dict and of
\* lz78_decode_from_tuples, whatever was called before on the instance,
\* starts with a dictionary holding the seed entries and nothing else (empty
\* when unseeded), so the tuples of a block are those a freshly built encoder
\* gives for it.
C14_OneDictionaryLifetimePerCall ==
    /\ (pc = "parse" /\ pos = 0) =>
           encoder_dictionary = IF seeded THEN seed ELSE EmptyDict
    /\ (pc = "decode" /\ dec_pos = 0) =>
           decoder_dictionary = IF seeded THEN InverseOf(seed) ELSE EmptyDict
    /\ (~seeded /\ pc = "parsed") =>
           output = ReferenceParse(data_list, <<>>, EmptyDict, 1, <<>>).pairs

\* C15: built with a seed of n entries at indexes 1..n, the encoder and the
\* decoder give the first phrase they register in a pass the index n+1 and
\* the following ones n+2, n+3, ..., so the indexes of the seed stay with
\* the seed's phrases.
C15_IndexContinuesAfterSeed ==
    [][(seeded /\ block_no = 0) =>
         /\ pc = "parse" =>
               \A key \in DOMAIN encoder_dictionary' \ DOMAIN encoder_dictionary :
                   encoder_dictionary'[key] = Cardinality(DOMAIN seed) + Len(output')
         /\ pc = "decode" =>
               /\ \A i \in DOMAIN decoder_dictionary' \ DOMAIN decoder_dictionary :
                      i = Cardinality(DOMAIN seed) + dec_pos'
               /\ \A key \in DOMAIN seed : decoder_dictionary'[seed[key]] = key]_vars

\* C16: the dictionary object the caller handed to LZ78Encoder holds, after
\* any parse or encode_block, exactly the entries it held at construction.
C16_SeedNotMutated ==
    seeded => initial_dict = seed

\* the stream handed to decode_block is encode_block's bits of this block
\* followed by at least one more bit
TrailingAppended ==
    /\ mode = "block"
    /\ output # <<>>
    /\ Len(encoded_bitarray) > Len(encode_tuples(output))
    /\ SubSeq(encoded_bitarray, 1, Len(encode_tuples(output))) = encode_tuples(output)

\* decode_block read the two streams of the block and nothing behind them
ConsumedTheBlock ==
    /\ encoded_tuples = output
    /\ num_bits_consumed = Len(encode_tuples(output))

\* C17: a non-empty block S whose encode_block bits are followed by other
\* bits T: decode_block reads the index stream, reads the literal stream from
\* the bit where the index stream ended, returns S and reports as
\* num_bits_consumed the length of encode_block(S), whatever T is.
C17_SelfDelimitingBlock ==
    TrailingAppended =>
        /\ pc = "decode" => ConsumedTheBlock
        /\ pc = "idle" => /\ status = "ok"
                          /\ decoded_list = data_list
                          /\ ConsumedTheBlock

\* the same for the first block of an encoder and a decoder built without
\* initial dictionary
SelfDelimitingFirstBlock ==
    (TrailingAppended /\ ~seeded /\ block_no <= 1 /\ Len(fed) = 1) =>
        /\ pc = "decode" => ConsumedTheBlock
        /\ pc = "idle" => /\ status = "ok"
                          /\ decoded_list = data_list
                          /\ ConsumedTheBlock

\* on any instance, seeded or used before, decode_block reads the block and
\* nothing behind it
SelfDelimitingBits ==
    (TrailingAppended /\ pc = "decode") => ConsumedTheBlock

IsPrefix(k, s) == Len(k) <= Len(s) /\ SubSeq(s, 1, Len(k)) = k

\* every non-empty proper prefix of a key is a key
PrefixClosed(dictionary) ==
    \A key \in DOMAIN dictionary :
        \A n \in 1..(Len(key) - 1) : SubSeq(key, 1, n) \in DOMAIN dictionary

\* the input not yet turned into tuples: what the buffered prefix holds and
\* what has not been read
NotYetConsumed == Join(SubSeq(data_list, pos - Len(prefix) + 1, Len(data_list)))

\* the keys that are a prefix of the input not yet turned into tuples
Matching == {key \in DOMAIN encoder_dictionary : IsPrefix(key, NotYetConsumed)}

\* C18: in the first parse of an encoder built without initial dictionary the
\* keys of the dictionary are prefix-closed at every point, and every tuple
\* the parser emits refers to the longest key that is a prefix of the input
\* not yet turned into tuples, with reference 0 exactly when there is no such
\* key.
C18_GreedyLongestMatch ==
    /\ [](FreshParse => PrefixClosed(encoder_dictionary))
    /\ [][(FreshParse /\ pc = "parse" /\ Len(output') = Len(output) + 1) =>
            IF Matching = {}
            THEN Last(output')[1] = 0
            ELSE \E key \in Matching :
                    /\ encoder_dictionary[key] = Last(output')[1]
                    /\ \A other \in Matching : Len(other) <= Len(key)]_vars

\* the parse is over and one of its tuples refers to a phrase of two symbols
\* or more: a shorter key matched there as well
C18_Witness ==
    /\ FreshParse /\ pc = "parsed"
    /\ \E j \in 1..Len(output), key \in DOMAIN encoder_dictionary :
           /\ encoder_dictionary[key] = output[j][1]
           /\ Len(key) >= 2

====
